---- MODULE Spec2Model ----
(***************************************************************************)
(* Model of the coordination core of spendalert.me: the Plaid transaction  *)
(* sync workflow (merge, cursor, alert-once claim) and the Loop message    *)
(* debouncer.  The relational store is the only shared state; every        *)
(* database statement is one atomic step, and the awaits between           *)
(* statements are the points where concurrent runs interleave.             *)
(***************************************************************************)
EXTENDS Integers, Sequences, FiniteSets, TLC

\* ------------------------------------------------------------------------
\* Bounds and fixed data
\* ------------------------------------------------------------------------

\* SQL NULL in a timestamp column, no cursor token (timestamps and tokens are
\* positive)
Null == 0

\* SQL NULL in a text column
NoText == "null"

\* largest value of the wall clock (new Date())
MaxClock == 2

\* number of transactionSyncWorkflow runs started in one behaviour
MaxRuns == 2

\* images the user attaches to one transaction
MaxAttachments == 1

\* concurrent callers; the sync specifications start runs on SyncWorkers only
Workers == {"w1", "w2", "w3"}

SyncWorkers == {"w1", "w2"}

TxIds == {"P", "F"}

\* order in which a SELECT returns rows (any fixed order)
TxOrder == <<"P", "F">>

\* Upstream (Plaid) records.  amount stands for every column of the
\* onConflictDoUpdate set list (amount, date, name, merchant, category,
\* location ...): they are all written alike.
P1 == [transaction_id |-> "P", amount |-> 5, pending |-> TRUE,
       pending_transaction_id |-> NoText]

F1 == [transaction_id |-> "F", amount |-> 5, pending |-> FALSE,
       pending_transaction_id |-> "P"]

F2 == [transaction_id |-> "F", amount |-> 7, pending |-> FALSE,
       pending_transaction_id |-> "P"]

\* The provider's update log of the item, one entry per transactionsSync page:
\* a provisional charge appears, it is posted (the final record supersedes the
\* provisional one, which is removed), the posted record is modified.
Feed == << [added |-> <<P1>>, modified |-> <<>>, removed |-> <<>>],
           [added |-> <<F1>>, modified |-> <<>>, removed |-> <<"P">>],
           [added |-> <<>>, modified |-> <<F2>>, removed |-> <<>>] >>

VARIABLES
    now,           \* wall clock
    transactions,  \* table transactions: function from the stored ids to rows
    plaidCursor,   \* plaidItems.cursor of the item
    avail,         \* number of Feed pages the provider has published
    wf,            \* per worker: position and locals of its workflow run
    runs,          \* workflow runs started so far
    dispatched,    \* per id: calls of sendTransactionAlert made for it
    hits,          \* per id: claim UPDATEs that changed alertedAt null -> set
    unmarks,       \* rollbacks (unmarkTransactionAlerted) executed
    deliveryFailed, \* some sendTransactionAlert call threw or reported failure
    onceStore,     \* <<the table as the first application of a batch left it>>
    edits,         \* per id: the user-owned columns as last written by the user
                   \* after the first application of a batch
    clock,         \* Date.now() of the Loop webhook process, in ms
    pendingMessages, \* table pendingMessages: function from buffer ids to rows
    ev,            \* per inbound message: position and locals of its handler
                   \* and of the processBufferedMessages call its timer makes
    generated,     \* the batches handed to generateResponse, in call order
    arrivals,      \* message ids in the order their webhooks were accepted
    lastClaim,     \* messages buffered when a buffer was last marked (0: never)
    syncLocks,     \* syncLocks.get(itemId) of the Plaid webhook process (Null: none)
    hookClock,     \* Date.now() of the Plaid webhook process, in ms
    handlers,      \* per Plaid webhook: position of handleSyncUpdatesAvailable
    reminders,     \* table reminders: function from the stored ids to rows
    cronClock,     \* new Date() of the reminders cron, in minutes
    jobs,          \* per cron invocation: position and locals of GET
    reminded       \* per reminder: reminder messages sent to the recipient

\* the state of the message debouncer
msgVars == <<clock, pendingMessages, ev, generated, arrivals, lastClaim>>

\* the state of the Plaid webhook process
hookVars == <<syncLocks, hookClock, handlers>>

\* the state of the reminders cron
cronVars == <<reminders, cronClock, jobs, reminded>>

\* what the steps of the sync workflow leave alone
others == <<onceStore, edits, msgVars, hookVars, cronVars>>

\* the state of the transaction sync
syncVars == <<now, transactions, plaidCursor, avail, wf, runs, dispatched, hits,
              unmarks, deliveryFailed, onceStore, edits, hookVars, cronVars>>

\* what the Plaid webhook process and the reminders cron leave alone
restVars == <<now, transactions, plaidCursor, avail, wf, runs, dispatched, hits,
              unmarks, deliveryFailed, onceStore, edits, msgVars>>

vars == <<syncVars, msgVars>>

\* ------------------------------------------------------------------------
\* Helpers
\* ------------------------------------------------------------------------

\* the opaque next_cursor token of log position p
Token(p) == p + 1

\* startCursor || undefined: no cursor reads the log from its beginning
Pos(c) == IF c = Null THEN 0 ELSE c - 1

\* the row of id is stored
Stored(store, id) == id \in DOMAIN store

RECURSIVE Concat(_, _, _)
\* field f of pages lo+1 .. hi of the feed, concatenated (added.concat(...))
Concat(f, lo, hi) ==
    IF hi <= lo THEN <<>> ELSE Concat(f, lo, hi - 1) \o Feed[hi][f]

IdleWorker == [pc |-> "idle", ver |-> "claim", cursor |-> Null, lo |-> 0,
               hi |-> 0, i |-> 0, inh |-> Null, mem |-> <<>>, unalerted |-> <<>>,
               k |-> 0, rowsAffected |-> 0, claimed |-> FALSE,
               failedTx |-> NoText]

SyncAdded(r) == Concat("added", r.lo, r.hi)

SyncModified(r) == Concat("modified", r.lo, r.hi)

SyncRemoved(r) == Concat("removed", r.lo, r.hi)

\* spendingTxs.filter(amount > 0).filter(tx => !tx.alertedAt) over the records
\* upsertTransaction returned (mark-after-send revision)
InMemoryUnalerted(mem) ==
    LET keep == SelectSeq(mem, LAMBDA m : m.amount > 0 /\ m.alertedAt = Null)
    IN [j \in 1..Len(keep) |-> keep[j].id]

\* first statement of the body of the alert loop
LoopStart(r) == IF r.ver = "claim" THEN "claimUpd" ELSE "send"

\* what follows the merge loops: the alert query (the cursor is already
\* written), or the cursor update (mark-after-send revision)
AfterMerge(r) ==
    IF r.ver = "claim" THEN [r EXCEPT !.pc = "query", !.i = 0]
    ELSE [r EXCEPT !.pc = "cursor", !.i = 0]

\* the for loops of the merge and the alert loop: where control is after the
\* loop variable moved; an exhausted loop falls through to the next statement
\* without an await
Advance(r) ==
    IF r.pc = "added" /\ r.i > Len(SyncAdded(r))
        THEN IF Len(SyncModified(r)) > 0 THEN [r EXCEPT !.pc = "modified", !.i = 1]
             ELSE IF Len(SyncRemoved(r)) > 0 THEN [r EXCEPT !.pc = "removed", !.i = 1]
             ELSE AfterMerge(r)
    ELSE IF r.pc = "modified" /\ r.i > Len(SyncModified(r))
        THEN IF Len(SyncRemoved(r)) > 0 THEN [r EXCEPT !.pc = "removed", !.i = 1]
             ELSE AfterMerge(r)
    ELSE IF r.pc = "removed" /\ r.i > Len(SyncRemoved(r))
        THEN AfterMerge(r)
    ELSE IF r.pc \in {"claimUpd", "send"} /\ r.k > Len(r.unalerted)
        THEN [r EXCEPT !.pc = "done", !.k = 0, !.unalerted = <<>>, !.mem = <<>>]
    ELSE r

\* the alert loop moves to its next transaction
NextAlert(r) == Advance([r EXCEPT !.pc = LoopStart(r), !.k = r.k + 1])

\* ------------------------------------------------------------------------
\* Store operations
\* ------------------------------------------------------------------------

\* a writer that passes the whole values object as the conflict set:
\* alertedAt is rewritten with the inherited value on every upsert
UpsertRowSetValues(store, tx, inherited, t) ==
    [id \in DOMAIN store \cup {tx.transaction_id} |->
        IF id # tx.transaction_id THEN store[id]
        ELSE IF Stored(store, id)
            THEN [store[id] EXCEPT !.amount = tx.amount, !.pending = tx.pending,
                     !.pendingTransactionId = tx.pending_transaction_id,
                     !.alertedAt = inherited, !.updatedAt = t]
            ELSE [amount |-> tx.amount, pending |-> tx.pending,
                  pendingTransactionId |-> tx.pending_transaction_id,
                  tags |-> NoText, notes |-> NoText, attachments |-> <<>>,
                  alertedAt |-> inherited, createdAt |-> t, updatedAt |-> t]]

\* a writer that replaces the row (delete, then insert) instead of updating
\* the upstream columns in place
UpsertRowReplace(store, tx, inherited, t) ==
    [id \in DOMAIN store \cup {tx.transaction_id} |->
        IF id # tx.transaction_id THEN store[id]
        ELSE [amount |-> tx.amount, pending |-> tx.pending,
              pendingTransactionId |-> tx.pending_transaction_id,
              tags |-> NoText, notes |-> NoText, attachments |-> <<>>,
              alertedAt |-> IF Stored(store, id) THEN store[id].alertedAt
                            ELSE inherited,
              createdAt |-> IF Stored(store, id) THEN store[id].createdAt ELSE t,
              updatedAt |-> t]]

\* a writer that does not carry the alert status over: every new row starts
\* unalerted
UpsertRowNoInherit(store, tx, inherited, t) ==
    [id \in DOMAIN store \cup {tx.transaction_id} |->
        IF id # tx.transaction_id THEN store[id]
        ELSE IF Stored(store, id)
            THEN [store[id] EXCEPT !.amount = tx.amount, !.pending = tx.pending,
                     !.pendingTransactionId = tx.pending_transaction_id,
                     !.updatedAt = t]
            ELSE [amount |-> tx.amount, pending |-> tx.pending,
                  pendingTransactionId |-> tx.pending_transaction_id,
                  tags |-> NoText, notes |-> NoText, attachments |-> <<>>,
                  alertedAt |-> Null, createdAt |-> t, updatedAt |-> t]]

\* db.insert(transactions).values(values).onConflictDoUpdate({set: ...}):
\* the attachments column holds a JSON list, NULL reads as the empty list
UpsertRow(store, tx, inherited, t) ==
    IF ~Stored(store, tx.transaction_id)
        THEN [id \in DOMAIN store \cup {tx.transaction_id} |->
                IF id # tx.transaction_id THEN store[id]
                ELSE [amount |-> tx.amount, pending |-> tx.pending,
                      pendingTransactionId |-> tx.pending_transaction_id,
                      tags |-> NoText, notes |-> NoText, attachments |-> <<>>,
                      alertedAt |-> inherited, createdAt |-> t, updatedAt |-> t]]
        ELSE [store EXCEPT ![tx.transaction_id] =
                [@ EXCEPT !.amount = tx.amount, !.pending = tx.pending,
                          !.pendingTransactionId = tx.pending_transaction_id,
                          !.updatedAt = t]]

\* db.query.transactions.findFirst({where: id = pending_transaction_id,
\* columns: {alertedAt}}); pendingTx?.alertedAt
ReadAlertedAt(store, id) ==
    IF ~Stored(store, id) THEN Null ELSE store[id].alertedAt

\* db.delete(transactions).where(eq(transactions.id, transactionId))
DeleteRow(store, id) == [x \in DOMAIN store \ {id} |-> store[x]]

\* UPDATE transactions SET alertedAt = now WHERE id = $1 AND alertedAt IS NULL
ClaimAffects(store, id) == Stored(store, id) /\ store[id].alertedAt = Null

ClaimRow(store, id, t) ==
    IF ClaimAffects(store, id) THEN [store EXCEPT ![id].alertedAt = t] ELSE store

\* const claimed = tx?.alertedAt !== null, tx read back after the UPDATE
ClaimReadBack(store, id) ==
    IF ~Stored(store, id) THEN TRUE ELSE store[id].alertedAt # Null

\* markTransactionAlerted: UPDATE transactions SET alertedAt = now WHERE id = $1
MarkRow(store, id, t) ==
    IF ~Stored(store, id) THEN store ELSE [store EXCEPT ![id].alertedAt = t]

\* UPDATE transactions SET alertedAt = NULL WHERE id = $1
UnmarkRow(store, id) ==
    IF ~Stored(store, id) THEN store ELSE [store EXCEPT ![id].alertedAt = Null]

\* the same query without the amount filter
UnalertedAnyAmount(store, ids) ==
    SelectSeq(TxOrder, LAMBDA id :
        /\ \E j \in 1..Len(ids) : ids[j] = id
        /\ Stored(store, id)
        /\ store[id].alertedAt = Null)

\* the same query without the alertedAt filter
UnalertedAnyStatus(store, ids) ==
    SelectSeq(TxOrder, LAMBDA id :
        /\ \E j \in 1..Len(ids) : ids[j] = id
        /\ Stored(store, id)
        /\ store[id].amount > 0)

\* SELECT ... WHERE id IN ids AND CAST(amount AS DECIMAL) > 0 AND alertedAt IS NULL
Unalerted(store, ids) ==
    SelectSeq(TxOrder, LAMBDA id :
        /\ \E j \in 1..Len(ids) : ids[j] = id
        /\ Stored(store, id)
        /\ store[id].amount > 0
        /\ store[id].alertedAt = Null)

\* ------------------------------------------------------------------------
\* Loop webhook: data of the message debouncer
\* ------------------------------------------------------------------------

\* const DEBOUNCE_DELAY_MS = 2000
DEBOUNCE_DELAY_MS == 2000

\* setTimeout(..., DEBOUNCE_DELAY_MS + 100): the small buffer added
TimerSlack == 100

\* last instant of the webhook process's clock
MaxTime == 2400

\* how far the clock moves between two steps
Delays == {100, 2000}

\* inbound messages of one phone number, named by their message_id
MsgIds == {"m1", "m2"}

\* order in which a SELECT over pendingMessages meets the rows
BufferOrder == <<"m1", "m2", "e1", "e2", "e3", "e4", "e5", "e6", "e7", "e8">>

\* inbound messages of the timed bursts, named by their message_id
BurstIds == {"e1", "e2", "e3", "e4", "e5", "e6", "e7", "e8"}

AllIds == MsgIds \cup BurstIds

\* a webhook that has not arrived yet; a handler's locals are dropped (reset
\* to these values) when the code reads them no more
NewEvent == [pc |-> "new", t0 |-> 0, existing |-> NoText, seen |-> <<>>,
             deadline |-> 0, pnow |-> 0, buf |-> NoText, batch |-> <<>>]

MsgInit ==
    /\ clock = 0
    /\ pendingMessages = <<>>
    /\ ev = [m \in AllIds |-> NewEvent]
    /\ generated = <<>>
    /\ arrivals = <<>>
    /\ lastClaim = 0

\* ------------------------------------------------------------------------
\* transactionSyncWorkflow
\* ------------------------------------------------------------------------

\* ------------------------------------------------------------------------
\* Plaid webhook: data of the in-memory sync lock (one item)
\* ------------------------------------------------------------------------

\* const LOCK_TIMEOUT_MS = 60000
LOCK_TIMEOUT_MS == 60000

\* Date.now() when the webhook process starts
HookStart == 1000

\* how far the clock of the webhook process moves in one step
HookStep == 30000

\* last instant of the webhook process's clock
MaxHookTime == 91000

\* SYNC_UPDATES_AVAILABLE webhooks of the item
HookIds == {"h1", "h2", "h3"}

\* a webhook that has not arrived yet; at is the now it stored in syncLocks
NewHandler == [pc |-> "new", at |-> Null]

HookInit ==
    /\ syncLocks = Null
    /\ hookClock = HookStart
    /\ handlers = [h \in HookIds |-> NewHandler]

\* ------------------------------------------------------------------------
\* Reminders cron: data
\* ------------------------------------------------------------------------

\* const FIRST_FOLLOWUP_MINUTES = 10
FIRST_FOLLOWUP_MINUTES == 10

\* const SECOND_FOLLOWUP_MINUTES = 15
SECOND_FOLLOWUP_MINUTES == 15

\* const MAX_FOLLOWUPS = 2
MAX_FOLLOWUPS == 2

\* how far the clock of the cron moves in one step, in minutes
CronStep == 5

\* new Date() of the first cron invocation, in minutes
CronStart == 1

\* last instant of the cron's clock, in minutes
MaxCronTime == 21

\* minutes from one occurrence of a recurring reminder to the next (daily)
RecurrencePeriod == 1440

\* the stored reminders
ReminderIds == {"r1"}

\* invocations of the cron handler
JobIds == {"c1", "c2"}

\* an invocation that has not started; rnow is its new Date(), due and
\* followUp the rows its two SELECTs returned
NewJob == [pc |-> "new", rnow |-> 0, due |-> <<>>, followUp |-> <<>>]

CronInit ==
    /\ reminders = <<>>
    /\ cronClock = CronStart
    /\ jobs = [c \in JobIds |-> NewJob]
    /\ reminded = [r \in ReminderIds |-> 0]

Init ==
    /\ now = 1
    /\ transactions = <<>>
    /\ plaidCursor = Null
    /\ avail = 0
    /\ wf = [w \in Workers |-> IdleWorker]
    /\ runs = 0
    /\ dispatched = [id \in TxIds |-> 0]
    /\ hits = [id \in TxIds |-> 0]
    /\ unmarks = 0
    /\ deliveryFailed = FALSE
    /\ onceStore = <<>>
    /\ edits = <<>>
    /\ MsgInit
    /\ HookInit
    /\ CronInit

\* time passes
Tick ==
    /\ now < MaxClock
    /\ now' = now + 1
    /\ UNCHANGED <<transactions, plaidCursor, avail, wf, runs, dispatched, hits,
                   unmarks, deliveryFailed, others>>

\* the provider records the next update of the item
Publish ==
    /\ avail < Len(Feed)
    /\ avail' = avail + 1
    /\ UNCHANGED <<now, transactions, plaidCursor, wf, runs, dispatched, hits,
                   unmarks, deliveryFailed, others>>

\* start(transactionSyncWorkflow, [item_id]) of revision v; step 1 getPlaidItem
\* reads the cursor
StartRun(w, v) ==
    /\ wf[w].pc \in {"idle", "done", "failed"}
    /\ runs < MaxRuns
    /\ runs' = runs + 1
    /\ wf' = [wf EXCEPT ![w] = [IdleWorker EXCEPT !.pc = "fetch", !.ver = v,
                                   !.cursor = plaidCursor,
                                   !.lo = Pos(plaidCursor),
                                   !.hi = Pos(plaidCursor)]]
    /\ UNCHANGED <<now, transactions, plaidCursor, avail, dispatched, hits,
                   unmarks, deliveryFailed, others>>

\* a fetch loop that stores the cursor after every page
FetchPageSavesCursor(w) ==
    /\ wf[w].pc = "fetch"
    /\ LET c == Pos(wf[w].cursor)
           next == IF c < avail THEN c + 1 ELSE c
           hasMore == next < avail
           r == [wf[w] EXCEPT !.cursor = Token(next), !.hi = next]
       IN /\ wf' = [wf EXCEPT ![w] =
                    IF hasMore THEN r
                    ELSE IF r.ver = "claim" THEN [r EXCEPT !.pc = "cursor"]
                    ELSE Advance([r EXCEPT !.pc = "added", !.i = 1])]
          /\ plaidCursor' = Token(next)
    /\ UNCHANGED <<now, transactions, avail, runs, dispatched, hits,
                   unmarks, deliveryFailed, others>>

\* one iteration of the while (hasMore) loop of syncTransactionsFromPlaid
FetchPage(w) ==
    /\ wf[w].pc = "fetch"
    /\ LET c == Pos(wf[w].cursor)
           next == IF c < avail THEN c + 1 ELSE c
           hasMore == next < avail
           r == [wf[w] EXCEPT !.cursor = Token(next), !.hi = next]
       IN wf' = [wf EXCEPT ![w] =
                    IF hasMore THEN r
                    ELSE IF r.ver = "claim" THEN [r EXCEPT !.pc = "cursor"]
                    ELSE Advance([r EXCEPT !.pc = "added", !.i = 1])]
    /\ UNCHANGED <<now, transactions, plaidCursor, avail, runs, dispatched, hits,
                   unmarks, deliveryFailed, others>>

\* a failure handler that stores the cursor reached so far
FetchFailSavesCursor(w) ==
    /\ wf[w].pc = "fetch"
    /\ wf' = [wf EXCEPT ![w] = [@ EXCEPT !.pc = "failed"]]
    /\ plaidCursor' = wf[w].cursor
    /\ UNCHANGED <<now, transactions, avail, runs, dispatched, hits,
                   unmarks, deliveryFailed, others>>

\* plaidClient.transactionsSync throws: the step and the run fail
FetchFail(w) ==
    /\ wf[w].pc = "fetch"
    /\ wf' = [wf EXCEPT ![w] = [@ EXCEPT !.pc = "failed"]]
    /\ UNCHANGED <<now, transactions, plaidCursor, avail, runs, dispatched, hits,
                   unmarks, deliveryFailed, others>>

\* if (syncResult.cursor) updatePlaidItemCursor(itemId, syncResult.cursor):
\* step 3, before the merge; in the mark-after-send revision step 6, after the
\* merge and followed by the in-memory filter of step 8
UpdateCursor(w) ==
    /\ wf[w].pc = "cursor"
    /\ plaidCursor' = IF wf[w].cursor # Null THEN wf[w].cursor ELSE plaidCursor
    /\ wf' = [wf EXCEPT ![w] =
                IF wf[w].ver = "claim"
                THEN Advance([@ EXCEPT !.pc = "added", !.i = 1])
                ELSE Advance([@ EXCEPT !.pc = "send", !.k = 1,
                                       !.unalerted = InMemoryUnalerted(wf[w].mem)])]
    /\ UNCHANGED <<now, transactions, avail, runs, dispatched, hits, unmarks,
                   deliveryFailed, others>>

\* the upstream record the merge loop of w is at
CurrentTx(r) ==
    IF r.pc \in {"added", "addedW"} THEN SyncAdded(r)[r.i] ELSE SyncModified(r)[r.i]

\* upsertTransaction, first statement: look up the provisional record
UpsertRead(w) ==
    /\ wf[w].pc \in {"added", "modified"}
    /\ CurrentTx(wf[w]).pending_transaction_id # NoText
    /\ wf' = [wf EXCEPT ![w] = [@ EXCEPT
                !.inh = ReadAlertedAt(transactions,
                                      CurrentTx(wf[w]).pending_transaction_id),
                !.pc = IF wf[w].pc = "added" THEN "addedW" ELSE "modifiedW"]]
    /\ UNCHANGED <<now, transactions, plaidCursor, avail, runs, dispatched, hits,
                   unmarks, deliveryFailed, others>>

\* upsertTransaction, second statement: insert ... on conflict do update
UpsertWrite(w) ==
    /\ \/ wf[w].pc \in {"addedW", "modifiedW"}
       \/ /\ wf[w].pc \in {"added", "modified"}
          /\ CurrentTx(wf[w]).pending_transaction_id = NoText
    /\ transactions' = UpsertRow(transactions, CurrentTx(wf[w]), wf[w].inh, now)
    /\ wf' = [wf EXCEPT ![w] = Advance([@ EXCEPT
                !.pc = IF wf[w].pc \in {"added", "addedW"} THEN "added" ELSE "modified",
                !.i = wf[w].i + 1, !.inh = Null,
                !.mem = IF wf[w].ver = "mark" /\ wf[w].pc \in {"added", "addedW"}
                        THEN Append(@, [id |-> CurrentTx(wf[w]).transaction_id,
                                        amount |-> CurrentTx(wf[w]).amount,
                                        alertedAt |-> wf[w].inh])
                        ELSE @])]
    /\ UNCHANGED <<now, plaidCursor, avail, runs, dispatched, hits, unmarks,
                   deliveryFailed, others>>

\* a merge that deletes the removed records before it upserts the added ones
DeleteRemovedFirst(w) ==
    /\ wf[w].pc = "added"
    /\ wf[w].i = 1
    /\ Len(SyncRemoved(wf[w])) > 0
    /\ Stored(transactions, SyncRemoved(wf[w])[1])
    /\ transactions' = DeleteRow(transactions, SyncRemoved(wf[w])[1])
    /\ UNCHANGED <<now, plaidCursor, avail, wf, runs, dispatched, hits, unmarks,
                   deliveryFailed, others>>

\* step 6: deleteTransaction(tx.transaction_id)
DeleteRemoved(w) ==
    /\ wf[w].pc = "removed"
    /\ transactions' = DeleteRow(transactions, SyncRemoved(wf[w])[wf[w].i])
    /\ wf' = [wf EXCEPT ![w] = Advance([@ EXCEPT !.i = wf[w].i + 1])]
    /\ UNCHANGED <<now, plaidCursor, avail, runs, dispatched, hits, unmarks,
                   deliveryFailed, others>>

\* ids pushed to addedTransactionIds in step 4
AddedIds(r) == [j \in 1..Len(SyncAdded(r)) |-> SyncAdded(r)[j].transaction_id]

\* step 8: getUnalertedSpendingTransactions(addedTransactionIds)
QueryUnalerted(w) ==
    /\ wf[w].pc = "query"
    /\ wf' = [wf EXCEPT ![w] = Advance([@ EXCEPT !.pc = "claimUpd", !.k = 1,
                !.unalerted = Unalerted(transactions, AddedIds(wf[w]))])]
    /\ UNCHANGED <<now, transactions, plaidCursor, avail, runs, dispatched, hits,
                   unmarks, deliveryFailed, others>>

\* the transaction the alert loop of w is at
AlertTx(r) == r.unalerted[r.k]

\* tryClaimTransactionForAlert, first statement: the conditional UPDATE
ClaimUpdate(w) ==
    /\ wf[w].pc = "claimUpd"
    /\ transactions' = ClaimRow(transactions, AlertTx(wf[w]), now)
    /\ hits' = [hits EXCEPT ![AlertTx(wf[w])] =
                   IF ClaimAffects(transactions, AlertTx(wf[w])) THEN @ + 1 ELSE @]
    /\ wf' = [wf EXCEPT ![w] = [@ EXCEPT !.pc = "claimRead",
                !.rowsAffected = IF ClaimAffects(transactions, AlertTx(wf[w]))
                                 THEN 1 ELSE 0]]
    /\ UNCHANGED <<now, plaidCursor, avail, runs, dispatched, unmarks,
                   deliveryFailed, others>>

\* tryClaimTransactionForAlert, second statement: read the row back and return
ClaimRead(w) ==
    /\ wf[w].pc = "claimRead"
    /\ LET c == ClaimReadBack(transactions, AlertTx(wf[w]))
       IN wf' = [wf EXCEPT ![w] =
                    IF c THEN [@ EXCEPT !.pc = "send", !.claimed = TRUE]
                    ELSE NextAlert([@ EXCEPT !.claimed = FALSE])]
    /\ UNCHANGED <<now, transactions, plaidCursor, avail, runs, dispatched, hits,
                   unmarks, deliveryFailed, others>>

\* sendSingleTransactionAlert: the relay accepted the message, returns true
SendOk(w) ==
    /\ wf[w].pc = "send"
    /\ dispatched' = [dispatched EXCEPT ![AlertTx(wf[w])] = @ + 1]
    /\ wf' = [wf EXCEPT ![w] =
                IF wf[w].ver = "claim" THEN NextAlert([@ EXCEPT !.claimed = FALSE])
                ELSE [@ EXCEPT !.pc = "mark"]]
    /\ UNCHANGED <<now, transactions, plaidCursor, avail, runs, hits, unmarks,
                   deliveryFailed, others>>

\* sendSingleTransactionAlert: the generator returned "", nothing is sent,
\* returns false
SendEmpty(w) ==
    /\ wf[w].pc = "send"
    /\ wf' = [wf EXCEPT ![w] =
                IF wf[w].ver = "claim" THEN [@ EXCEPT !.pc = "unmark"]
                ELSE NextAlert(@)]
    /\ UNCHANGED <<now, transactions, plaidCursor, avail, runs, dispatched, hits,
                   unmarks, deliveryFailed, others>>

\* sendSingleTransactionAlert: sendTransactionAlert resolves with
\* success = false; the result is logged and true is returned
SendReportsFailure(w) ==
    /\ wf[w].pc = "send"
    /\ dispatched' = [dispatched EXCEPT ![AlertTx(wf[w])] = @ + 1]
    /\ deliveryFailed' = TRUE
    /\ wf' = [wf EXCEPT ![w] =
                IF wf[w].ver = "claim"
                THEN NextAlert([@ EXCEPT !.claimed = FALSE,
                                         !.failedTx = AlertTx(wf[w])])
                ELSE [@ EXCEPT !.pc = "mark", !.failedTx = AlertTx(wf[w])]]
    /\ UNCHANGED <<now, transactions, plaidCursor, avail, runs, hits, unmarks, others>>

\* sendSingleTransactionAlert: sendMessage throws (relay unreachable, HTTP
\* error); nothing in the workflow catches it, the run fails
SendThrows(w) ==
    /\ wf[w].pc = "send"
    /\ dispatched' = [dispatched EXCEPT ![AlertTx(wf[w])] = @ + 1]
    /\ deliveryFailed' = TRUE
    /\ wf' = [wf EXCEPT ![w] = [@ EXCEPT !.pc = "failed",
                !.failedTx = AlertTx(wf[w])]]
    /\ UNCHANGED <<now, transactions, plaidCursor, avail, runs, hits, unmarks, others>>

\* unmarkTransactionAlerted(tx.id)
Unmark(w) ==
    /\ wf[w].pc = "unmark"
    /\ transactions' = UnmarkRow(transactions, AlertTx(wf[w]))
    /\ unmarks' = unmarks + 1
    /\ wf' = [wf EXCEPT ![w] = NextAlert([@ EXCEPT !.claimed = FALSE])]
    /\ UNCHANGED <<now, plaidCursor, avail, runs, dispatched, hits, deliveryFailed,
                   others>>

\* if (alertSent) markTransactionAlerted(tx.id) (mark-after-send revision)
MarkAlerted(w) ==
    /\ wf[w].pc = "mark"
    /\ transactions' = MarkRow(transactions, AlertTx(wf[w]), now)
    /\ wf' = [wf EXCEPT ![w] = NextAlert(@)]
    /\ UNCHANGED <<now, plaidCursor, avail, runs, dispatched, hits, unmarks,
                   deliveryFailed, others>>

WorkflowStep(w) ==
    \/ FetchPage(w)
    \/ FetchFail(w)
    \/ UpdateCursor(w)
    \/ UpsertRead(w)
    \/ UpsertWrite(w)
    \/ DeleteRemoved(w)
    \/ QueryUnalerted(w)
    \/ ClaimUpdate(w)
    \/ ClaimRead(w)
    \/ SendOk(w)
    \/ SendEmpty(w)
    \/ SendReportsFailure(w)
    \/ SendThrows(w)
    \/ Unmark(w)

Next ==
    \/ Tick
    \/ Publish
    \/ \E w \in SyncWorkers : StartRun(w, "claim")
    \/ \E w \in SyncWorkers : WorkflowStep(w)

Spec == Init /\ [][Next]_vars

\* ------------------------------------------------------------------------
\* Both revisions of transactionSyncWorkflow that alert from the workflow
\* itself: runs of either revision may overlap
\* ------------------------------------------------------------------------

NextPaths ==
    \/ Tick
    \/ Publish
    \/ \E w \in SyncWorkers : \E v \in {"claim", "mark"} : StartRun(w, v)
    \/ \E w \in SyncWorkers : WorkflowStep(w)
    \/ \E w \in SyncWorkers : MarkAlerted(w)

SpecPaths == Init /\ [][NextPaths]_vars

\* ------------------------------------------------------------------------
\* N concurrent calls of tryClaimTransactionForAlert for one stored transaction
\* ------------------------------------------------------------------------

\* the provisional record as the first sync pass stored it, unalerted or
\* alerted at time 1
StoredP(a) ==
    [amount |-> P1.amount, pending |-> P1.pending,
     pendingTransactionId |-> P1.pending_transaction_id,
     tags |-> NoText, notes |-> NoText, attachments |-> <<>>,
     alertedAt |-> a, createdAt |-> 1, updatedAt |-> 1]

\* every caller is at the call tryClaimTransactionForAlert("P") of its alert loop
InitClaim ==
    /\ now = 1
    /\ \E a \in {Null, 1} : transactions = [id \in {"P"} |-> StoredP(a)]
    /\ plaidCursor = Token(1)
    /\ avail = 1
    /\ wf = [w \in Workers |-> [IdleWorker EXCEPT !.pc = "claimUpd",
                                   !.cursor = Token(1), !.hi = 1,
                                   !.unalerted = <<"P">>, !.k = 1]]
    /\ runs = MaxRuns
    /\ dispatched = [id \in TxIds |-> 0]
    /\ hits = [id \in TxIds |-> 0]
    /\ unmarks = 0
    /\ deliveryFailed = FALSE
    /\ onceStore = <<>>
    /\ edits = <<>>
    /\ MsgInit
    /\ HookInit
    /\ CronInit

NextClaim ==
    \/ Tick
    \/ \E w \in Workers : ClaimUpdate(w)
    \/ \E w \in Workers : ClaimRead(w)

SpecClaim == InitClaim /\ [][NextClaim]_vars

\* the call of w has returned true (the loop goes on to send) / false (the loop
\* continues, here to its end)
ReturnedTrue(w) == wf[w].pc = "send"

ReturnedFalse(w) == wf[w].pc = "done"

\* C1: of N >= 2 concurrent calls of tryClaimTransactionForAlert on a
\* transaction whose alertedAt was null, exactly one returns true and the
\* others return false (checked under SpecClaim, once every call returned)
C1_ExactlyOneClaimWins ==
    (/\ hits["P"] = 1
     /\ \A w \in Workers : ReturnedTrue(w) \/ ReturnedFalse(w))
    => Cardinality({w \in Workers : ReturnedTrue(w)}) = 1

\* C2: tryClaimTransactionForAlert returns true iff the call's own conditional
\* UPDATE changed alertedAt from null to non-null; a call on an already alerted
\* transaction returns false and leaves the stored timestamp as it was
\* (checked under SpecClaim)
C2_TrueIffOwnUpdate ==
    /\ \A w \in Workers : ReturnedTrue(w) => wf[w].rowsAffected = 1
    /\ \A w \in Workers : ReturnedFalse(w) => wf[w].rowsAffected = 0
    /\ hits["P"] = 0 => transactions["P"].alertedAt \in {Null, transactions["P"].createdAt}

\* ------------------------------------------------------------------------
\* Claims about overlapping sync passes
\* ------------------------------------------------------------------------

\* C3: however many transactionSyncWorkflow runs overlap and see an id in their
\* added list, sendTransactionAlert is invoked for that id at most once in
\* total, provided no delivery fails
C3_AtMostOneDispatch ==
    ~deliveryFailed => \A id \in TxIds : dispatched[id] <= 1

\* C4: across a provisional transaction and the final transaction that
\* supersedes it, alertedAt goes from null to non-null through a claim at most
\* once in total, in every interleaving of sync passes (stated for behaviours
\* without any rollback, which the data model lets reset the flag)
C4_LineageClaimedOnce ==
    unmarks = 0 => hits["P"] + hits["F"] <= 1

\* C8: on every path that dispatches a transaction notification the dispatcher
\* is invoked only after a claim for that record succeeded, and alertedAt is
\* never set after the send (checked under SpecPaths)
C8_ClaimPrecedesSend ==
    [][\A w \in Workers :
          /\ (SendOk(w) \/ SendReportsFailure(w) \/ SendThrows(w)) => wf[w].claimed
          /\ ~MarkAlerted(w)]_vars

\* C9: when the delivery attempt for a claimed transaction fails
\* (sendTransactionAlert throws or reports failure), the caller resets
\* alertedAt to null: once the run of that caller is over, the transaction,
\* claimed once, is unalerted again
C9_FailedDeliveryRollsBack ==
    \A w \in Workers :
        (/\ wf[w].pc \in {"done", "failed"}
         /\ wf[w].failedTx # NoText
         /\ Stored(transactions, wf[w].failedTx)
         /\ hits[wf[w].failedTx] = 1)
        => transactions[wf[w].failedTx].alertedAt = Null

\* ------------------------------------------------------------------------
\* The merge of one batch applied twice, with the assistant's tools writing
\* the user-owned columns (src/lib/ai/agent.ts) around the applications
\* ------------------------------------------------------------------------

\* the tags, the note and the image url the user supplies
UserTags == "t"

UserNote == "n"

ImageUrl == "u"

\* the user-owned columns of a row
Local(row) == [tags |-> row.tags, notes |-> row.notes,
               attachments |-> row.attachments]

\* the assistant's tools ran on id after the first application: remember what
\* they left in the user-owned columns
Remember(id, row) ==
    IF onceStore = <<>> THEN edits
    ELSE [x \in DOMAIN edits \cup {id} |-> IF x = id THEN Local(row) ELSE edits[x]]

\* tool tagTransaction: findFirst, then UPDATE tags, updatedAt WHERE id
TagTransaction(id) ==
    /\ Stored(transactions, id)
    /\ LET row == [transactions[id] EXCEPT !.tags = UserTags, !.updatedAt = now]
       IN /\ transactions' = [transactions EXCEPT ![id] = row]
          /\ edits' = Remember(id, row)
    /\ UNCHANGED <<now, plaidCursor, avail, wf, runs, dispatched, hits, unmarks,
                   deliveryFailed, onceStore, msgVars,
                   hookVars, cronVars>>

\* tool addTransactionNote: findFirst, then UPDATE notes, updatedAt WHERE id
AddTransactionNote(id) ==
    /\ Stored(transactions, id)
    /\ LET row == [transactions[id] EXCEPT !.notes = UserNote, !.updatedAt = now]
       IN /\ transactions' = [transactions EXCEPT ![id] = row]
          /\ edits' = Remember(id, row)
    /\ UNCHANGED <<now, plaidCursor, avail, wf, runs, dispatched, hits, unmarks,
                   deliveryFailed, onceStore, msgVars,
                   hookVars, cronVars>>

\* tool attachImageToTransaction: findFirst, push to the parsed list, then
\* UPDATE attachments, updatedAt WHERE id
AttachImageToTransaction(id) ==
    /\ Stored(transactions, id)
    /\ Len(transactions[id].attachments) < MaxAttachments
    /\ LET row == [transactions[id] EXCEPT !.attachments = Append(@, ImageUrl),
                                           !.updatedAt = now]
       IN /\ transactions' = [transactions EXCEPT ![id] = row]
          /\ edits' = Remember(id, row)
    /\ UNCHANGED <<now, plaidCursor, avail, wf, runs, dispatched, hits, unmarks,
                   deliveryFailed, onceStore, msgVars,
                   hookVars, cronVars>>

\* the final record as an earlier sync pass stored it (the provisional record
\* is already removed)
StoredF(a) ==
    [amount |-> F1.amount, pending |-> F1.pending,
     pendingTransactionId |-> F1.pending_transaction_id,
     tags |-> NoText, notes |-> NoText, attachments |-> <<>>,
     alertedAt |-> a, createdAt |-> 1, updatedAt |-> 1]

\* a worker about to apply pages lo+1 .. hi of the feed (steps 4 to 6)
MergeStart(lo, hi) ==
    Advance([IdleWorker EXCEPT !.pc = "added", !.i = 1, !.cursor = Token(hi),
                               !.lo = lo, !.hi = hi])

\* the table as the sync passes before page lo+1 can have left it
StoreBefore(lo) ==
    IF lo = 0 THEN {<<>>}
    ELSE IF lo = 1 THEN {[id \in {"P"} |-> StoredP(a)] : a \in {Null, 1}}
    ELSE {[id \in {"F"} |-> StoredF(a)] : a \in {Null, 1}}

\* w1 and w2 hold the same batch: the second is a re-run of the first
InitMerge ==
    /\ now = 1
    /\ \E lo \in 0..(Len(Feed) - 1) : \E hi \in (lo + 1)..Len(Feed) :
          /\ transactions \in StoreBefore(lo)
          /\ wf = [w \in Workers |->
                      IF w \in SyncWorkers THEN MergeStart(lo, hi) ELSE IdleWorker]
          /\ plaidCursor = Token(hi)
    /\ avail = Len(Feed)
    /\ runs = MaxRuns
    /\ dispatched = [id \in TxIds |-> 0]
    /\ hits = [id \in TxIds |-> 0]
    /\ unmarks = 0
    /\ deliveryFailed = FALSE
    /\ onceStore = <<>>
    /\ edits = <<>>
    /\ MsgInit
    /\ HookInit
    /\ CronInit

MergeStep(w) == UpsertRead(w) \/ UpsertWrite(w) \/ DeleteRemoved(w)

\* the first application of the batch
MergeFirst == onceStore = <<>> /\ MergeStep("w1")

\* the first application is over: record the table it left
Snapshot ==
    /\ onceStore = <<>>
    /\ wf["w1"].pc = "query"
    /\ onceStore' = <<transactions>>
    /\ UNCHANGED <<now, transactions, plaidCursor, avail, wf, runs, dispatched,
                   hits, unmarks, deliveryFailed, edits, msgVars,
                   hookVars, cronVars>>

\* the second application of the batch
MergeSecond == onceStore # <<>> /\ MergeStep("w2")

\* the user's tools run before or during the first application, or between
\* the two applications
UserEdit ==
    /\ wf["w2"] = MergeStart(wf["w2"].lo, wf["w2"].hi)
    /\ ~(onceStore = <<>> /\ wf["w1"].pc = "query")
    /\ \E id \in TxIds :
          \/ TagTransaction(id)
          \/ AddTransactionNote(id)
          \/ AttachImageToTransaction(id)

NextMerge ==
    \/ Tick
    \/ MergeFirst
    \/ Snapshot
    \/ UserEdit
    \/ MergeSecond

SpecMerge == InitMerge /\ [][NextMerge]_vars

\* both applications of the batch are over
AppliedTwice == onceStore # <<>> /\ wf["w2"].pc = "query"

\* ids the batch of w upserts
BatchIds(w) ==
    {SyncAdded(wf[w])[j].transaction_id : j \in 1..Len(SyncAdded(wf[w]))}
    \cup {SyncModified(wf[w])[j].transaction_id : j \in 1..Len(SyncModified(wf[w]))}

\* what the user-owned columns of id must hold after the second application
ExpectedLocal(id) ==
    IF id \in DOMAIN edits THEN edits[id] ELSE Local(onceStore[1][id])

\* row r is row o in every column but updatedAt and the user-owned ones
SameRecord(r, o) ==
    /\ r.amount = o.amount
    /\ r.pending = o.pending
    /\ r.pendingTransactionId = o.pendingTransactionId
    /\ r.alertedAt = o.alertedAt
    /\ r.createdAt = o.createdAt

\* C5: when record A is stored with alertedAt set and record B with
\* pending_transaction_id = A.id is inserted for the first time by
\* upsertTransaction, B is stored with A's alertedAt, and no claim is made
\* for B (checked under SpecMerge, on every insert step)
C5_InsertInheritsAlertedAt ==
    [][\A w \in SyncWorkers :
          (/\ wf[w].pc = "addedW"
           /\ UpsertWrite(w)
           /\ ~Stored(transactions, CurrentTx(wf[w]).transaction_id)
           /\ Stored(transactions, CurrentTx(wf[w]).pending_transaction_id)
           /\ transactions[CurrentTx(wf[w]).pending_transaction_id].alertedAt # Null)
          => /\ transactions'[CurrentTx(wf[w]).transaction_id].alertedAt
                  = transactions[CurrentTx(wf[w]).pending_transaction_id].alertedAt
             /\ hits' = hits]_vars

\* C5 witness: the final record was inserted while the alerted provisional
\* record was stored, and carries its timestamp without having been claimed
C5_Witness ==
    /\ Stored(transactions, "P")
    /\ Stored(transactions, "F")
    /\ transactions["P"].alertedAt # Null
    /\ transactions["F"].alertedAt = transactions["P"].alertedAt
    /\ transactions["F"].createdAt > transactions["P"].createdAt
    /\ hits["F"] = 0

\* C6 as stated: applying the same batch twice leaves the same stored
\* transactions as applying it once (every column of every row the user did
\* not touch in between), and what the user wrote in between is still there
C6_TwiceSameAsOnce ==
    AppliedTwice =>
        /\ DOMAIN transactions = DOMAIN onceStore[1]
        /\ \A id \in DOMAIN edits : Stored(transactions, id)
        /\ \A id \in DOMAIN transactions :
              /\ SameRecord(transactions[id], onceStore[1][id])
              /\ Local(transactions[id]) = ExpectedLocal(id)
              /\ id \notin DOMAIN edits
                    => transactions[id].updatedAt = onceStore[1][id].updatedAt

\* C6 amended: applying the same batch twice leaves the same rows with the
\* same columns as applying it once, except updatedAt, which every upsert of
\* the second application rewrites with its own time; tags, notes and
\* attachments written in between are still there
C6_TwiceSameButUpdatedAt ==
    AppliedTwice =>
        /\ DOMAIN transactions = DOMAIN onceStore[1]
        /\ \A id \in DOMAIN edits : Stored(transactions, id)
        /\ \A id \in DOMAIN transactions :
              /\ SameRecord(transactions[id], onceStore[1][id])
              /\ Local(transactions[id]) = ExpectedLocal(id)
              /\ transactions[id].updatedAt >= onceStore[1][id].updatedAt

\* C6 witness: the batch was applied twice, the user tagged, annotated and
\* attached to an alerted row of the batch in between, and the row's updatedAt
\* is later than the first application left it
C6_Witness ==
    /\ AppliedTwice
    /\ \E id \in DOMAIN edits \cap BatchIds("w2") :
          /\ edits[id].tags = UserTags
          /\ edits[id].notes = UserNote
          /\ edits[id].attachments # <<>>
          /\ transactions[id].alertedAt # Null
          /\ transactions[id].updatedAt > onceStore[1][id].updatedAt

\* C7: upsertTransaction on an id that is already stored leaves the row's
\* tags, notes, attachments and alertedAt as they were, whatever the incoming
\* record holds; on the first insert they take the write's values (no tags, no
\* note, no attachments, the inherited alert status)
C7_UpsertKeepsLocalFields ==
    [][\A w \in SyncWorkers :
          UpsertWrite(w) =>
              LET id == CurrentTx(wf[w]).transaction_id
              IN IF Stored(transactions, id)
                 THEN /\ Local(transactions'[id]) = Local(transactions[id])
                      /\ transactions'[id].alertedAt = transactions[id].alertedAt
                 ELSE /\ Local(transactions'[id])
                            = [tags |-> NoText, notes |-> NoText, attachments |-> <<>>]
                      /\ transactions'[id].alertedAt = wf[w].inh]_vars

\* C7 witness: the first application has rewritten the stored final record
\* with the modified upstream record (the amount changed) after the user had
\* tagged and annotated it and attached an image, and the row was alerted
C7_Witness ==
    /\ wf["w1"].pc = "query"
    /\ wf["w1"].lo = 2
    /\ Stored(transactions, "F")
    /\ transactions["F"].amount = F2.amount
    /\ transactions["F"].tags = UserTags
    /\ transactions["F"].notes = UserNote
    /\ transactions["F"].attachments # <<>>
    /\ transactions["F"].alertedAt # Null
    /\ transactions["F"].updatedAt > transactions["F"].createdAt
    /\ onceStore = <<>>

\* ------------------------------------------------------------------------
\* Loop webhook: bufferMessage and processBufferedMessages for one phone number
\* ------------------------------------------------------------------------

\* WHERE phoneNumber = $1 AND processedAt IS NULL
Unprocessed(row) == row.processedAt = Null

\* the same condition without processedAt IS NULL
ReadyIgnoresProcessed(row, t) == row.processingAt < t

\* WHERE phoneNumber = $1 AND processedAt IS NULL AND processingAt < $2
Ready(row, t) == row.processedAt = Null /\ row.processingAt < t

\* ids of the unprocessed buffers, in the order the scan meets them
UnprocessedIds(tbl) ==
    SelectSeq(BufferOrder, LAMBDA b : b \in DOMAIN tbl /\ Unprocessed(tbl[b]))

\* ids of the buffers ready at time t, in the order the scan meets them
ReadyIds(tbl, t) ==
    SelectSeq(BufferOrder, LAMBDA b : b \in DOMAIN tbl /\ Ready(tbl[b], t))

\* number of messages whose bufferMessage call has written its buffer
Buffered ==
    Cardinality({m \in AllIds :
                    ev[m].pc \notin {"new", "select", "insert", "append"}})

\* time passes in the webhook process
Elapse ==
    /\ \E d \in Delays : clock + d <= MaxTime /\ clock' = clock + d
    /\ UNCHANGED <<syncVars, pendingMessages, ev, generated, arrivals, lastClaim>>

\* POST, message_inbound: the webhook is accepted and bufferMessage reads
\* Date.now() for the message's timestamp and the buffer's processing time
BufferStart(m) ==
    /\ ev[m].pc = "new"
    /\ ev' = [ev EXCEPT ![m] = [@ EXCEPT !.pc = "select", !.t0 = clock]]
    /\ arrivals' = Append(arrivals, m)
    /\ UNCHANGED <<syncVars, clock, pendingMessages, generated, lastClaim>>

\* the same handler when its SELECT never finds the unprocessed buffer
BufferSelectFindsNone(m) ==
    /\ ev[m].pc = "select"
    /\ ev' = [ev EXCEPT ![m] = [@ EXCEPT !.pc = "insert"]]
    /\ UNCHANGED <<syncVars, clock, pendingMessages, generated, arrivals,
                   lastClaim>>

\* the awaited SELECT of the unprocessed buffer of the phone number (LIMIT 1,
\* any of the matching rows) is executed
BufferSelect(m) ==
    /\ ev[m].pc = "select"
    /\ LET found == UnprocessedIds(pendingMessages)
       IN \/ /\ found = <<>>
             /\ ev' = [ev EXCEPT ![m] = [@ EXCEPT !.pc = "insert"]]
          \/ \E j \in 1..Len(found) :
                ev' = [ev EXCEPT ![m] = [@ EXCEPT !.pc = "append",
                          !.existing = found[j],
                          !.seen = pendingMessages[found[j]].messages]]
    /\ UNCHANGED <<syncVars, clock, pendingMessages, generated, arrivals,
                   lastClaim>>

\* existing.length > 0: push to the parsed messages and UPDATE messages,
\* processingAt WHERE id = buffer.id; then arm the timer
BufferAppend(m) ==
    /\ ev[m].pc = "append"
    /\ pendingMessages' = [pendingMessages EXCEPT ![ev[m].existing] =
          [@ EXCEPT !.messages = Append(ev[m].seen, m),
                    !.processingAt = ev[m].t0 + DEBOUNCE_DELAY_MS]]
    /\ ev' = [ev EXCEPT ![m] = [NewEvent EXCEPT !.pc = "armed",
                 !.deadline = clock + DEBOUNCE_DELAY_MS + TimerSlack]]
    /\ UNCHANGED <<syncVars, clock, generated, arrivals, lastClaim>>

\* else: INSERT a new buffer (id uuidv4(), here the id of the message that
\* creates it); then arm the timer
BufferInsert(m) ==
    /\ ev[m].pc = "insert"
    /\ pendingMessages' = [b \in DOMAIN pendingMessages \cup {m} |->
          IF b # m THEN pendingMessages[b]
          ELSE [messages |-> <<m>>,
                processingAt |-> ev[m].t0 + DEBOUNCE_DELAY_MS,
                processedAt |-> Null]]
    /\ ev' = [ev EXCEPT ![m] = [NewEvent EXCEPT !.pc = "armed",
                 !.deadline = clock + DEBOUNCE_DELAY_MS + TimerSlack]]
    /\ UNCHANGED <<syncVars, clock, generated, arrivals, lastClaim>>

\* the same call when it hands the snapshot to the generator without marking
\* the buffer
ProcessSelectSkipsMark(m) ==
    /\ ev[m].pc = "armed"
    /\ clock >= ev[m].deadline
    /\ LET found == ReadyIds(pendingMessages, clock)
       IN \/ /\ found = <<>>
             /\ ev' = [ev EXCEPT ![m] = [NewEvent EXCEPT !.pc = "returned"]]
          \/ \E j \in 1..Len(found) :
                ev' = [ev EXCEPT ![m] = [NewEvent EXCEPT !.pc = "generate",
                          !.buf = found[j],
                          !.batch = pendingMessages[found[j]].messages]]
    /\ UNCHANGED <<syncVars, clock, pendingMessages, generated, arrivals,
                   lastClaim>>

\* the timer of m fires (at its deadline or later): processBufferedMessages
\* reads new Date() and selects a ready buffer (LIMIT 1), returns if none
ProcessSelect(m) ==
    /\ ev[m].pc = "armed"
    /\ clock >= ev[m].deadline
    /\ LET found == ReadyIds(pendingMessages, clock)
       IN \/ /\ found = <<>>
             /\ ev' = [ev EXCEPT ![m] = [NewEvent EXCEPT !.pc = "returned"]]
          \/ \E j \in 1..Len(found) :
                ev' = [ev EXCEPT ![m] = [NewEvent EXCEPT !.pc = "mark",
                          !.pnow = clock, !.buf = found[j],
                          !.batch = pendingMessages[found[j]].messages]]
    /\ UNCHANGED <<syncVars, clock, pendingMessages, generated, arrivals,
                   lastClaim>>

\* UPDATE pendingMessages SET processedAt = now WHERE id = buffer.id
ProcessMark(m) ==
    /\ ev[m].pc = "mark"
    /\ pendingMessages' = [pendingMessages EXCEPT ![ev[m].buf] =
          [@ EXCEPT !.processedAt = ev[m].pnow]]
    /\ ev' = [ev EXCEPT ![m] = [@ EXCEPT !.pc = "generate", !.pnow = 0]]
    /\ lastClaim' = Buffered
    /\ UNCHANGED <<syncVars, clock, generated, arrivals>>

\* the messages of the snapshot are combined and handed to generateResponse
Generate(m) ==
    /\ ev[m].pc = "generate"
    /\ generated' = Append(generated, [by |-> m, buf |-> ev[m].buf,
                                       messages |-> ev[m].batch])
    /\ ev' = [ev EXCEPT ![m] = [@ EXCEPT !.pc = "answered", !.batch = <<>>]]
    /\ UNCHANGED <<syncVars, clock, pendingMessages, arrivals, lastClaim>>

\* getOrCreateConversation, saveMessage, generateResponse or
\* sendTransactionAlert throws: the rejection is logged by the timer's catch
GenerateFails(m) ==
    /\ ev[m].pc = "generate"
    /\ ev' = [ev EXCEPT ![m] = [@ EXCEPT !.pc = "failed", !.batch = <<>>]]
    /\ UNCHANGED <<syncVars, clock, pendingMessages, generated, arrivals,
                   lastClaim>>

NextMsg ==
    \/ Elapse
    \/ \E m \in MsgIds : BufferStart(m)
    \/ \E m \in MsgIds : BufferSelect(m)
    \/ \E m \in MsgIds : BufferAppend(m)
    \/ \E m \in MsgIds : BufferInsert(m)
    \/ \E m \in MsgIds : ProcessSelect(m)
    \/ \E m \in MsgIds : ProcessMark(m)
    \/ \E m \in MsgIds : Generate(m)
    \/ \E m \in MsgIds : GenerateFails(m)

SpecMsg == Init /\ [][NextMsg]_vars

\* the processBufferedMessages call of m obtained buffer b
Obtained(m, b) ==
    ev[m].pc \in {"mark", "generate", "answered", "failed"} /\ ev[m].buf = b

\* C10: of any number of concurrent processBufferedMessages calls for the same
\* phone number on a ready buffer, exactly one obtains the batch and goes on to
\* the response generator; no buffer is obtained by two calls
C10_OneCallObtainsBatch ==
    \A b \in DOMAIN pendingMessages :
        Cardinality({m \in MsgIds : Obtained(m, b)}) <= 1

\* C11: once a buffer of the phone number has been marked, a further
\* processBufferedMessages call made while no further message has been
\* buffered since obtains nothing (it returns without marking or generating)
C11_SecondAttemptObtainsNothing ==
    [][\A m \in MsgIds :
          (ProcessSelect(m) /\ lastClaim > 0 /\ Buffered = lastClaim)
          => ev'[m].pc = "returned"]_vars

\* C18: a message that arrives while the phone number has unprocessed messages
\* is stored by inserting a row; storing a message changes no existing row
C18_ArrivalInsertsRow ==
    [][\A m \in MsgIds :
          (BufferAppend(m) \/ BufferInsert(m))
          => /\ DOMAIN pendingMessages' # DOMAIN pendingMessages
             /\ \A b \in DOMAIN pendingMessages :
                   pendingMessages'[b] = pendingMessages[b]]_vars

\* position of message m in the order of acceptance
ArrivalIndex(m) == CHOOSE i \in 1..Len(arrivals) : arrivals[i] = m

\* C19: the messages of every batch handed to generateResponse are listed in
\* the order in which their webhooks were accepted, oldest first
C19_CombinedInArrivalOrder ==
    \A k \in 1..Len(generated) :
        LET msgs == generated[k].messages
        IN \A i, j \in 1..Len(msgs) :
              i < j => ArrivalIndex(msgs[i]) < ArrivalIndex(msgs[j])

\* C20: when generating or sending the reply fails, nothing is rolled back; the
\* buffer of a failed call keeps its processedAt in every later step and no
\* processBufferedMessages call that starts later obtains it
C20_FailedBatchStaysClaimed ==
    [][\A x \in MsgIds :
          /\ GenerateFails(x) =>
                /\ pendingMessages' = pendingMessages
                /\ pendingMessages[ev[x].buf].processedAt # Null
          /\ ev[x].pc = "failed" =>
                /\ pendingMessages'[ev[x].buf].processedAt # Null
                /\ \A m \in MsgIds :
                      ProcessSelect(m) => ev'[m].buf # ev[x].buf]_vars

C20_Witness ==
    \E x \in MsgIds, m \in MsgIds :
        /\ ev[x].pc = "failed"
        /\ pendingMessages[ev[x].buf].processedAt # Null
        /\ ev[m].pc = "returned"
        /\ generated = <<>>

\* ------------------------------------------------------------------------
\* Timed bursts of messages of one phone number
\* ------------------------------------------------------------------------

\* a database statement completes, and a timer fires, at most this long after
\* it is due
MaxLag == 100

\* last instant of a timed burst
BurstEnd == 13200

\* maximum wait of the example: 10 s
Tmax == 10000

\* a webhook delivered between two instants
Between(a, b) == [from |-> a, to |-> b]

\* the instant by which the handler of message m takes its next step, for the
\* arrival windows S; the response is generated before the clock moves on (its
\* duration touches no buffer)
Due(m, S) ==
    CASE ev[m].pc = "new" -> S[m].to
      [] ev[m].pc \in {"select", "insert", "append"} -> ev[m].t0 + MaxLag
      [] ev[m].pc = "armed" -> ev[m].deadline + MaxLag
      [] ev[m].pc = "mark" -> ev[m].pnow + MaxLag
      [] ev[m].pc = "generate" -> clock
      [] OTHER -> BurstEnd

\* every handler of the burst has finished
Quiet(S) == \A m \in DOMAIN S : ev[m].pc \in {"answered", "returned"}

\* time passes up to the next due instant
ElapseBurst(S) ==
    /\ ~Quiet(S)
    /\ \E d \in Delays :
          /\ clock + d <= BurstEnd
          /\ \A m \in DOMAIN S : clock + d <= Due(m, S)
          /\ clock' = clock + d
    /\ UNCHANGED <<syncVars, pendingMessages, ev, generated, arrivals, lastClaim>>

\* the webhook of message m is delivered within its window
Arrive(m, S) == S[m].from <= clock /\ BufferStart(m)

BurstStep(S) ==
    \/ ElapseBurst(S)
    \/ \E m \in DOMAIN S : Arrive(m, S)
    \/ \E m \in DOMAIN S : BufferSelect(m)
    \/ \E m \in DOMAIN S : BufferAppend(m)
    \/ \E m \in DOMAIN S : BufferInsert(m)
    \/ \E m \in DOMAIN S : ProcessSelect(m)
    \/ \E m \in DOMAIN S : ProcessMark(m)
    \/ \E m \in DOMAIN S : Generate(m)

\* E1 at t = 0, E2 at t = 1 s, E3 at t = 1.5 s, E4 at t = 5 s
FourEvents ==
    [m \in {"e1", "e2", "e3", "e4"} |->
        CASE m = "e1" -> Between(0, 0)
          [] m = "e2" -> Between(1000, 1000)
          [] m = "e3" -> Between(1500, 1500)
          [] m = "e4" -> Between(5000, 5000)]

NextFourEvents == BurstStep(FourEvents)

SpecFourEvents == Init /\ [][NextFourEvents]_vars

\* the batches handed to generateResponse
Batches == {generated[k].messages : k \in 1..Len(generated)}

\* C12: with the 2 s delay, E1 at 0, E2 at 1 s and E3 at 1.5 s are processed as
\* one batch <<E1, E2, E3>> and E4 at 5 s as a second batch <<E4>>: no other
\* batch is ever generated, none twice, and both are when all handlers are done
C12_TwoBatches ==
    /\ Batches \subseteq {<<"e1", "e2", "e3">>, <<"e4">>}
    /\ Cardinality(Batches) = Len(generated)
    /\ Quiet(FourEvents) => Len(generated) = 2

C12_Witness ==
    /\ Quiet(FourEvents)
    /\ Len(generated) = 2
    /\ generated[1].messages = <<"e1", "e2", "e3">>
    /\ generated[1].by = "e3"
    /\ generated[2].messages = <<"e4">>
    /\ pendingMessages["e1"].processedAt < 5000

\* a message every 1.5 s, the eighth 10.5 s after the first
BurstSeq == <<"e1", "e2", "e3", "e4", "e5", "e6", "e7", "e8">>

SustainedBurst ==
    [m \in BurstIds |->
        LET i == CHOOSE k \in 1..Len(BurstSeq) : BurstSeq[k] = m
        IN Between(1500 * (i - 1), 1500 * (i - 1))]

NextSustainedBurst == BurstStep(SustainedBurst)

SpecSustainedBurst == Init /\ [][NextSustainedBurst]_vars

\* C13: while messages keep arriving less than the delay apart, the buffer is
\* still processed once its oldest message is Tmax old: no unprocessed buffer
\* holds a message that arrived more than Tmax (and the timer's lag) ago
C13_FlushedByTmax ==
    \A b \in DOMAIN pendingMessages :
        Unprocessed(pendingMessages[b]) =>
            clock - SustainedBurst[pendingMessages[b].messages[1]].from
                <= Tmax + TimerSlack + MaxLag

\* three messages within one second: the first at t = 0, the others at any time
\* up to t = 1 s
ThreeEvents ==
    [m \in {"e1", "e2", "e3"} |->
        IF m = "e1" THEN Between(0, 0) ELSE Between(0, 1000)]

NextThreeEvents == BurstStep(ThreeEvents)

SpecThreeEvents == Init /\ [][NextThreeEvents]_vars

\* C14: three messages within 1 s and none after: when every handler is done,
\* generateResponse has been called exactly once, by the one call that
\* obtained all three messages
C14_OneBatchOfThree ==
    Quiet(ThreeEvents) =>
        /\ Len(generated) = 1
        /\ Len(generated[1].messages) = 3
        /\ {generated[1].messages[i] : i \in 1..3} = DOMAIN ThreeEvents

\* ------------------------------------------------------------------------
\* Claims about the stored cursor
\* ------------------------------------------------------------------------

\* ids syncResult.removed lists
RemovedIds(r) == {SyncRemoved(r)[j] : j \in 1..Len(SyncRemoved(r))}

\* the batch of run r is in the store: every added or modified record is
\* stored unless the batch also removes it, and no removed record is stored
BatchMerged(store, r) ==
    /\ \A j \in 1..Len(SyncAdded(r)) :
          \/ SyncAdded(r)[j].transaction_id \in RemovedIds(r)
          \/ Stored(store, SyncAdded(r)[j].transaction_id)
    /\ \A j \in 1..Len(SyncModified(r)) :
          \/ SyncModified(r)[j].transaction_id \in RemovedIds(r)
          \/ /\ Stored(store, SyncModified(r)[j].transaction_id)
             /\ store[SyncModified(r)[j].transaction_id].amount
                    = SyncModified(r)[j].amount
    /\ \A id \in RemovedIds(r) : ~Stored(store, id)

\* C15: in every sync attempt the stored cursor is written only after all
\* records of the fetched pages have been merged into the store (so an attempt
\* that stops before the merge is complete has not moved the cursor)
C15_CursorAfterMerge ==
    [][\A w \in SyncWorkers :
          (UpdateCursor(w) /\ plaidCursor' # plaidCursor)
          => BatchMerged(transactions, wf[w])]_vars

\* the run of w failed in the fetch loop
FailedInFetch(w) == wf[w].pc = "failed" /\ wf[w].failedTx = NoText

\* C17: when a page fetch fails the attempt aborts (the run takes no further
\* step: nothing is merged, no alert is sent) and the stored cursor is
\* unchanged
C17_FetchFailureKeepsCursor ==
    [][\A w \in SyncWorkers :
          /\ FetchFail(w) => /\ plaidCursor' = plaidCursor
                             /\ transactions' = transactions
                             /\ FailedInFetch(w)'
          /\ FailedInFetch(w) =>
                \/ wf'[w] = wf[w]
                \/ /\ wf'[w].pc = "fetch"
                   /\ runs' = runs + 1
                   /\ plaidCursor' = plaidCursor
                   /\ transactions' = transactions]_vars

\* C17 witness: a run failed after it had fetched pages beyond the stored
\* cursor, and the store holds nothing of them
C17_Witness ==
    \E w \in SyncWorkers :
        /\ FailedInFetch(w)
        /\ wf[w].hi > Pos(plaidCursor)
        /\ transactions = <<>>
        /\ avail > wf[w].hi

\* ------------------------------------------------------------------------
\* A sync attempt whose second page fetch fails, and its re-run
\* ------------------------------------------------------------------------

\* the first attempt: it fetches, and the fetch that follows page 1 throws
FirstAttempt ==
    /\ runs = 1
    /\ \/ FetchPage("w1")
       \/ wf["w1"].hi = wf["w1"].lo + 1 /\ FetchFail("w1")

\* the re-run (the next trigger): no fetch fails
Rerun ==
    /\ runs = 2
    /\ \/ FetchPage("w1")
       \/ wf["w1"].pc # "fetch" /\ WorkflowStep("w1")

NextRetry ==
    \/ Tick
    \/ Publish
    \/ StartRun("w1", "claim")
    \/ FirstAttempt
    \/ Rerun

SpecRetry == Init /\ [][NextRetry]_vars

\* the run of w is past its merge (steps 4 to 6)
PastMerge(w) ==
    \/ wf[w].pc \in {"query", "claimUpd", "claimRead", "send", "unmark", "done"}
    \/ wf[w].pc = "failed" /\ wf[w].failedTx # NoText

Amounts == {-3, 5}

\* the row upsertTransaction stored for an added record
AddedRow(amt, a) == [StoredP(a) EXCEPT !.amount = amt]

\* the elements of a sequence
Range(seq) == {seq[j] : j \in 1..Len(seq)}

\* the pass of w1 has merged pages lo+1 .. hi and is at step 8; each record of
\* the feed is absent, or stored with either amount, alerted or not
InitAlerts ==
    /\ now = 1
    /\ \E ids \in SUBSET TxIds :
         \E amt \in [ids -> Amounts], al \in [ids -> {Null, 1}] :
            transactions = [id \in ids |-> AddedRow(amt[id], al[id])]
    /\ avail = Len(Feed)
    /\ \E lo \in 0..Len(Feed), hi \in 0..Len(Feed) :
          /\ lo < hi
          /\ plaidCursor = Token(hi)
          /\ wf = [w \in Workers |->
                     IF w = "w1"
                     THEN [IdleWorker EXCEPT !.pc = "query", !.cursor = Token(hi),
                                             !.lo = lo, !.hi = hi]
                     ELSE IdleWorker]
    /\ runs = MaxRuns
    /\ dispatched = [id \in TxIds |-> 0]
    /\ hits = [id \in TxIds |-> 0]
    /\ unmarks = 0
    /\ deliveryFailed = FALSE
    /\ onceStore = <<>>
    /\ edits = <<>>
    /\ MsgInit
    /\ HookInit
    /\ CronInit

NextAlerts ==
    \/ Tick
    \/ QueryUnalerted("w1")
    \/ ClaimUpdate("w1")
    \/ ClaimRead("w1")
    \/ SendOk("w1")
    \/ SendEmpty("w1")
    \/ SendReportsFailure("w1")
    \/ SendThrows("w1")
    \/ Unmark("w1")

SpecAlerts == InitAlerts /\ [][NextAlerts]_vars

\* C21: a failure while alerting one transaction does not keep the remaining
\* transactions of the batch from being claimed and alerted: when the pass is
\* over after a failed alert, every transaction it selected has been claimed
C21_FailureSparesSiblings ==
    (wf["w1"].pc = "failed" /\ wf["w1"].failedTx # NoText)
    => \A id \in Range(wf["w1"].unalerted) : hits[id] >= 1

\* sendSingleTransactionAlert is called by w
AlertAttempt(w) ==
    SendOk(w) \/ SendEmpty(w) \/ SendReportsFailure(w) \/ SendThrows(w)

Selects(w) ==
    QueryUnalerted(w) \/ (wf[w].ver = "mark" /\ UpdateCursor(w))

\* C22: no record whose stored alertedAt is non-null when the pass selects the
\* records to notify is selected (a pass sends only for records it selected):
\* eligibility is read from the store after the merge
C22_SelectionReadsStore ==
    [][\A w \in SyncWorkers :
          Selects(w) =>
              \A id \in Range(wf'[w].unalerted) :
                  ReadAlertedAt(transactions, id) = Null]_vars

\* ------------------------------------------------------------------------
\* Sync passes that stop before their end: the worker is killed or cancelled
\* in the alert loop, or upsertTransaction throws on an upstream record
\* ------------------------------------------------------------------------

\* the worker of w is killed or cancelled (execution time limit) after its
\* conditional UPDATE changed the row and before sendSingleTransactionAlert or
\* unmarkTransactionAlerted has run: the run takes no further step
Crash(w) ==
    /\ wf[w].ver = "claim"
    /\ wf[w].pc \in {"claimRead", "send", "unmark"}
    /\ wf[w].rowsAffected = 1
    /\ wf' = [wf EXCEPT ![w] = [@ EXCEPT !.pc = "stopped",
                !.failedTx = AlertTx(wf[w])]]
    /\ UNCHANGED <<now, transactions, plaidCursor, avail, runs, dispatched, hits,
                   unmarks, deliveryFailed, others>>

\* upsertTransaction throws on the record the merge loop is at (the record is
\* malformed: tx.amount.toString() of a missing amount, a NOT NULL column
\* without value); the loops of steps 4 and 5 catch nothing, the run fails
UpsertFails(w) ==
    /\ wf[w].pc \in {"added", "addedW", "modified", "modifiedW"}
    /\ wf' = [wf EXCEPT ![w] = [@ EXCEPT !.pc = "failed",
                !.failedTx = CurrentTx(wf[w]).transaction_id]]
    /\ UNCHANGED <<now, transactions, plaidCursor, avail, runs, dispatched, hits,
                   unmarks, deliveryFailed, others>>

NextFaults ==
    \/ Next
    \/ \E w \in SyncWorkers : Crash(w)
    \/ \E w \in SyncWorkers : UpsertFails(w)

SpecFaults == Init /\ [][NextFaults]_vars

\* the run of w stopped after it had claimed transaction failedTx
Stopped(w) == wf[w].pc = "stopped"

\* C23: when a worker has stopped after its claim on a transaction succeeded
\* and before delivery or rollback, the transaction's alertedAt stays non-null
\* (and so no later pass selects it)
C23_StoppedClaimStaysAlerted ==
    \A w \in SyncWorkers :
        (Stopped(w) /\ Stored(transactions, wf[w].failedTx))
        => transactions[wf[w].failedTx].alertedAt # Null

\* the run of w failed in the merge loops, on record failedTx
FailedInMerge(w) == wf[w].pc = "failed" /\ wf[w].i >= 1

\* C24: a malformed upstream record of a batch is skipped: the pass that met
\* it does not end in the merge, and the other records of its batch are merged
C24_MalformedRecordSkipped ==
    \A w \in SyncWorkers :
        ~ FailedInMerge(w)

\* ------------------------------------------------------------------------
\* Claims about a transaction whose claim was rolled back
\* ------------------------------------------------------------------------

\* transaction id was claimed and unmarkTransactionAlerted reset its alertedAt
RolledBack(id) ==
    /\ Stored(transactions, id)
    /\ transactions[id].alertedAt = Null
    /\ hits[id] >= 1

\* w1 ran two passes one after the other, and the second one, which started
\* from the cursor the first one stored, is over
LaterPassOver ==
    /\ runs = 2
    /\ wf["w2"].pc = "idle"
    /\ wf["w1"].pc = "done"
    /\ wf["w1"].lo >= 1

\* C28: a transaction whose claim was rolled back is picked up again and
\* notified by a later sync pass of the item: when the pass that followed the
\* rollback of P is over, P has been claimed again
C28_RolledBackIsRetried ==
    (LaterPassOver /\ RolledBack("P") /\ dispatched["P"] = 0)
    => hits["P"] >= 2

\* ------------------------------------------------------------------------
\* Claims about the processedAt mark of a buffer
\* ------------------------------------------------------------------------

\* C26: processedAt of a pendingMessages row is written at most once, from
\* null to non-null: every UPDATE that sets it finds it null, and a non-null
\* processedAt is never changed, however many processBufferedMessages calls run
C26_ProcessedAtWrittenOnce ==
    [][/\ \A m \in MsgIds :
             ProcessMark(m) => pendingMessages[ev[m].buf].processedAt = Null
       /\ \A b \in DOMAIN pendingMessages :
             pendingMessages[b].processedAt # Null
             => pendingMessages'[b].processedAt = pendingMessages[b].processedAt]_vars

\* generateResponse is invoked by the processBufferedMessages call of m
Generates(m) == Generate(m) \/ GenerateFails(m)

\* C27: the response generator is invoked only by a call that has itself
\* written processedAt of the buffer it answers, and only after that write: a
\* call reaches the generator by no other step than its own mark, and the
\* buffer is marked when the generator is invoked
C27_MarkPrecedesGeneration ==
    [][\A m \in MsgIds :
          /\ (ev[m].pc # "generate" /\ ev'[m].pc = "generate")
                => /\ ProcessMark(m)
                   /\ pendingMessages'[ev'[m].buf].processedAt # Null
          /\ Generates(m) => pendingMessages[ev[m].buf].processedAt # Null]_vars

\* both messages were answered by one call, whose buffer is marked
C27_Witness ==
    /\ Len(generated) = 1
    /\ Len(generated[1].messages) = 2
    /\ pendingMessages[generated[1].buf].processedAt # Null
    /\ ev[generated[1].by].pc = "answered"

\* ------------------------------------------------------------------------
\* Loop webhook: POST.  The handler that buffers the message (bufferMessage,
\* above) and the handler that answers the message inside the request
\* ------------------------------------------------------------------------

\* POST, message_inbound, of the handler without buffer: the webhook is accepted
PostAccept(m) ==
    /\ ev[m].pc = "new"
    /\ ev' = [ev EXCEPT ![m] = [@ EXCEPT !.pc = "direct", !.t0 = clock]]
    /\ arrivals' = Append(arrivals, m)
    /\ UNCHANGED <<syncVars, clock, pendingMessages, generated, lastClaim>>

\* await getOrCreateConversation, saveMessage, generateResponse(conversationId,
\* userMessage, sendInterimMessage), saveMessage
PostGenerate(m) ==
    /\ ev[m].pc = "direct"
    /\ generated' = Append(generated, [by |-> m, buf |-> NoText,
                                       messages |-> <<m>>])
    /\ ev' = [ev EXCEPT ![m] = [@ EXCEPT !.pc = "replying"]]
    /\ UNCHANGED <<syncVars, clock, pendingMessages, arrivals, lastClaim>>

\* one of the awaited calls throws: catch, the response is the error with
\* status 500
PostGenerateFails(m) ==
    /\ ev[m].pc = "direct"
    /\ ev' = [ev EXCEPT ![m] = [NewEvent EXCEPT !.pc = "replied"]]
    /\ UNCHANGED <<syncVars, clock, pendingMessages, generated, arrivals,
                   lastClaim>>

\* await sendTransactionAlert(phoneNumber, aiResponse);
\* return NextResponse.json({ read: true })
PostRespond(m) ==
    /\ ev[m].pc = "replying"
    /\ ev' = [ev EXCEPT ![m] = [NewEvent EXCEPT !.pc = "replied"]]
    /\ UNCHANGED <<syncVars, clock, pendingMessages, generated, arrivals,
                   lastClaim>>

NextPost ==
    \/ NextMsg
    \/ \E m \in MsgIds : PostAccept(m)
    \/ \E m \in MsgIds : PostGenerate(m)
    \/ \E m \in MsgIds : PostGenerateFails(m)
    \/ \E m \in MsgIds : PostRespond(m)

SpecPost == Init /\ [][NextPost]_vars

\* the webhook of message m has been answered: POST returns as soon as the
\* awaited bufferMessage has written the buffer and armed the timer, or at the
\* end of the handler without buffer
Responded(m) ==
    ev[m].pc \in {"armed", "mark", "generate", "answered", "failed", "returned",
                  "replied"}

\* C30: the webhook of an inbound message is answered before the message is
\* processed: every message handed to generateResponse has had its webhook
\* answered, and a webhook is answered by the step that writes the message to
\* the buffer
C30_AnsweredBeforeGeneration ==
    [][\A m \in MsgIds :
          /\ (\E k \in 1..Len(generated') :
                 \E j \in 1..Len(generated'[k].messages) :
                    generated'[k].messages[j] = m)
             => Responded(m)
          /\ (~Responded(m) /\ Responded(m)')
             => (BufferAppend(m) \/ BufferInsert(m))]_vars

\* ------------------------------------------------------------------------
\* Three messages within 300 ms
\* ------------------------------------------------------------------------

\* E1 at t = 0, E2 at t = 100 ms, E3 at t = 300 ms
CloseEvents ==
    [m \in {"e1", "e2", "e3"} |->
        CASE m = "e1" -> Between(0, 0)
          [] m = "e2" -> Between(100, 100)
          [] m = "e3" -> Between(300, 300)]

NextCloseEvents == BurstStep(CloseEvents)

SpecCloseEvents == Init /\ [][NextCloseEvents]_vars

\* the messages stored in unprocessed buffers
UnclaimedMessages ==
    UNION {Range(pendingMessages[b].messages) :
              b \in {x \in DOMAIN pendingMessages : Unprocessed(pendingMessages[x])}}

\* C25: no batch is obtained for the generator while the most recent unclaimed
\* message of the phone number arrived less than DEBOUNCE_DELAY_MS ago, unless
\* the oldest unclaimed message is more than Tmax old
C25_QuietBeforeBatch ==
    [][\A m \in DOMAIN CloseEvents :
          (ProcessSelect(m) /\ ev'[m].pc = "mark")
          => \/ \A x \in UnclaimedMessages :
                   clock - CloseEvents[x].from >= DEBOUNCE_DELAY_MS
             \/ \E x \in UnclaimedMessages :
                   clock - CloseEvents[x].from > Tmax]_vars

\* ------------------------------------------------------------------------
\* Claims about the messages of concurrent handlers
\* ------------------------------------------------------------------------

\* the batches handed to generateResponse that contain message m
BatchesWith(m) ==
    {k \in 1..Len(generated) : m \in Range(generated[k].messages)}

\* every handler of the phone number has finished without an exception
AllHandled == \A m \in MsgIds : ev[m].pc \in {"answered", "returned"}

\* C31: every message accepted by bufferMessage is contained in exactly one
\* batch handed to generateResponse, in every interleaving: when all handlers
\* have finished, no message is missing from the batches and none is in two
C31_EachMessageInOneBatch ==
    AllHandled => \A m \in MsgIds : Cardinality(BatchesWith(m)) = 1

\* ------------------------------------------------------------------------
\* Claims about the alertedAt of a notified or deleted transaction
\* ------------------------------------------------------------------------

\* a notification for transaction id was delivered (every send so far was
\* accepted by the relay)
Delivered(id) == dispatched[id] >= 1 /\ ~deliveryFailed

\* C32: once a notification for a transaction has been delivered, the
\* transaction's alertedAt is non-null in every later state: no rollback of
\* another run resets it
C32_DeliveredStaysAlerted ==
    \A id \in TxIds :
        (Delivered(id) /\ Stored(transactions, id))
        => transactions[id].alertedAt # Null

\* C33: tryClaimTransactionForAlert returns false when no row with the id is
\* stored: a call that reads back no row does not go on to send
C33_ClaimOfMissingRowFails ==
    [][\A w \in SyncWorkers :
          (ClaimRead(w) /\ ~Stored(transactions, AlertTx(wf[w])))
          => ~wf'[w].claimed /\ wf'[w].pc # "send"]_vars

\* ------------------------------------------------------------------------
\* Claims about overlapping sync passes
\* ------------------------------------------------------------------------

\* C34: the stored cursor of the item never moves backward: no pass overwrites
\* the cursor with one that is behind it in the provider's log
C34_CursorNeverMovesBack ==
    [][Pos(plaidCursor') >= Pos(plaidCursor)]_vars

\* ------------------------------------------------------------------------
\* Claims about the order of the merge loops
\* ------------------------------------------------------------------------

\* the added records of the batch of run r whose provisional predecessor is id
Successors(r, id) ==
    {SyncAdded(r)[j].transaction_id : j \in
        {n \in 1..Len(SyncAdded(r)) : SyncAdded(r)[n].pending_transaction_id = id}}

\* C35: within one sync pass every added record is upserted before any removed
\* record is deleted: when the pass deletes a record, every added record it
\* does not remove is stored, and a final record whose provisional predecessor
\* is the record being deleted carries the predecessor's alertedAt
C35_UpsertsBeforeDeletes ==
    [][\A w \in SyncWorkers :
          DeleteRemoved(w) =>
             /\ \A j \in 1..Len(SyncAdded(wf[w])) :
                   \/ SyncAdded(wf[w])[j].transaction_id \in RemovedIds(wf[w])
                   \/ Stored(transactions, SyncAdded(wf[w])[j].transaction_id)
             /\ LET gone == SyncRemoved(wf[w])[wf[w].i]
                IN Stored(transactions, gone) =>
                      \A id \in Successors(wf[w], gone) :
                          /\ Stored(transactions', id)
                          /\ transactions'[id].alertedAt
                                 = transactions[gone].alertedAt]_vars

\* the pass merged page 2 over the alerted provisional record: the final
\* record is stored with the inherited timestamp, unclaimed, and the
\* provisional record is deleted
C35_Witness ==
    /\ onceStore = <<>>
    /\ wf["w1"].pc = "query"
    /\ wf["w1"].lo = 1
    /\ Stored(transactions, "F")
    /\ transactions["F"].alertedAt # Null
    /\ ~Stored(transactions, "P")
    /\ hits["F"] = 0

\* ------------------------------------------------------------------------
\* Plaid webhook: handleSyncUpdatesAvailable and its in-memory lock
\* ------------------------------------------------------------------------

\* the call of h is inside the try block
InBody(h) == handlers[h].pc \in {"item", "sync"}

\* time passes in the webhook process
HookElapse ==
    /\ hookClock + HookStep <= MaxHookTime
    /\ hookClock' = hookClock + HookStep
    /\ UNCHANGED <<restVars, cronVars, syncLocks, handlers>>

\* existingLock && (now - existingLock) < LOCK_TIMEOUT_MS
LockHeld(lock, t) == lock # Null /\ t - lock < LOCK_TIMEOUT_MS

\* handleSyncUpdatesAvailable: a sync is in progress, log and return
SkipSync(h) ==
    /\ handlers[h].pc = "new"
    /\ LockHeld(syncLocks, hookClock)
    /\ handlers' = [handlers EXCEPT ![h] = [@ EXCEPT !.pc = "skipped"]]
    /\ UNCHANGED <<restVars, cronVars, syncLocks, hookClock>>

\* handleSyncUpdatesAvailable: syncLocks.set(itemId, now) and enter the try
\* block (no await between the test and the set)
AcquireLock(h) ==
    /\ handlers[h].pc = "new"
    /\ ~LockHeld(syncLocks, hookClock)
    /\ syncLocks' = hookClock
    /\ handlers' = [handlers EXCEPT ![h] = [pc |-> "item", at |-> hookClock]]
    /\ UNCHANGED <<restVars, cronVars, hookClock>>

\* the item is found: the fetch loop, the merge, the cursor update and the
\* alerts follow
ItemFound(h) ==
    /\ handlers[h].pc = "item"
    /\ handlers' = [handlers EXCEPT ![h] = [@ EXCEPT !.pc = "sync"]]
    /\ UNCHANGED <<restVars, cronVars, syncLocks, hookClock>>

\* an exit that leaves the entry of the item in syncLocks
ItemNotFoundKeepsLock(h) ==
    /\ handlers[h].pc = "item"
    /\ handlers' = [handlers EXCEPT ![h] = [@ EXCEPT !.pc = "notFound"]]
    /\ UNCHANGED <<restVars, cronVars, syncLocks, hookClock>>

\* if (!item) return; finally syncLocks.delete(itemId)
ItemNotFound(h) ==
    /\ handlers[h].pc = "item"
    /\ syncLocks' = Null
    /\ handlers' = [handlers EXCEPT ![h] = [@ EXCEPT !.pc = "notFound"]]
    /\ UNCHANGED <<restVars, cronVars, hookClock>>

\* the sync body completes; finally syncLocks.delete(itemId)
SyncCompletes(h) ==
    /\ handlers[h].pc = "sync"
    /\ syncLocks' = Null
    /\ handlers' = [handlers EXCEPT ![h] = [@ EXCEPT !.pc = "done"]]
    /\ UNCHANGED <<restVars, cronVars, hookClock>>

\* findFirst, transactionsSync, an upsert, the delete or the cursor update
\* throws; finally syncLocks.delete(itemId), POST answers with status 500
SyncThrows(h) ==
    /\ InBody(h)
    /\ syncLocks' = Null
    /\ handlers' = [handlers EXCEPT ![h] = [@ EXCEPT !.pc = "threw"]]
    /\ UNCHANGED <<restVars, cronVars, hookClock>>

NextHook ==
    \/ HookElapse
    \/ \E h \in HookIds : SkipSync(h)
    \/ \E h \in HookIds : AcquireLock(h)
    \/ \E h \in HookIds : ItemFound(h)
    \/ \E h \in HookIds : ItemNotFound(h)
    \/ \E h \in HookIds : SyncCompletes(h)
    \/ \E h \in HookIds : SyncThrows(h)

SpecHook == Init /\ [][NextHook]_vars

\* C36: while a call holds a lock it acquired less than LOCK_TIMEOUT_MS ago
\* and executes the sync body, no other call for the item enters the sync
\* body, also after a call whose lock had expired has finished
C36_NoSecondSyncWhileLocked ==
    [][\A h \in HookIds :
          AcquireLock(h)
          => \A g \in HookIds \ {h} :
                ~(InBody(g) /\ hookClock - handlers[g].at < LOCK_TIMEOUT_MS)]_vars

\* the call of h leaves handleSyncUpdatesAvailable after it acquired the lock
Exits(h) == ItemNotFound(h) \/ SyncCompletes(h) \/ SyncThrows(h)

\* C37: the entry of the item is removed whenever a call exits after acquiring
\* it (completion, item not found, exception), and a webhook is skipped only
\* while another call is inside the sync body
C37_LockReleasedOnExit ==
    [][\A h \in HookIds :
          /\ Exits(h) => syncLocks' = Null
          /\ SkipSync(h) => \E g \in HookIds \ {h} : InBody(g)]_vars

\* one call threw, one found no item, and a webhook that arrived afterwards
\* ran the sync
C37_Witness ==
    \E h, g, k \in HookIds :
        /\ handlers[h].pc = "threw"
        /\ handlers[g].pc = "notFound"
        /\ handlers[k].pc = "done"
        /\ handlers[k].at >= handlers[h].at
        /\ handlers[k].at >= handlers[g].at
        /\ syncLocks = Null

\* ------------------------------------------------------------------------
\* Reminders cron: GET
\* ------------------------------------------------------------------------

\* a reminder as the assistant stored it: pending, to be triggered at t
NewReminder(t, conf, rec) ==
    [status |-> "pending", triggerAt |-> t, requiresConfirmation |-> conf,
     recurring |-> rec, triggeredAt |-> Null, followUpCount |-> 0,
     lastFollowUpAt |-> Null]

\* one reminder is stored, of any kind, due at the first invocation or later
InitCron ==
    /\ now = 1
    /\ transactions = <<>>
    /\ plaidCursor = Null
    /\ avail = 0
    /\ wf = [w \in Workers |-> IdleWorker]
    /\ runs = 0
    /\ dispatched = [id \in TxIds |-> 0]
    /\ hits = [id \in TxIds |-> 0]
    /\ unmarks = 0
    /\ deliveryFailed = FALSE
    /\ onceStore = <<>>
    /\ edits = <<>>
    /\ MsgInit
    /\ HookInit
    /\ \E t \in {CronStart, CronStart + CronStep}, conf \in BOOLEAN, rec \in BOOLEAN :
          reminders = [r \in ReminderIds |-> NewReminder(t, conf, rec)]
    /\ cronClock = CronStart
    /\ jobs = [c \in JobIds |-> NewJob]
    /\ reminded = [r \in ReminderIds |-> 0]

\* time passes
CronTick ==
    /\ cronClock + CronStep <= MaxCronTime
    /\ cronClock' = cronClock + CronStep
    /\ UNCHANGED <<restVars, hookVars, reminders, jobs, reminded>>

\* the Authorization header is not the cron secret: 401
Unauthorized(c) ==
    /\ jobs[c].pc \in {"new", "done"}
    /\ jobs' = [jobs EXCEPT ![c] = [NewJob EXCEPT !.pc = "done"]]
    /\ UNCHANGED <<restVars, hookVars, reminders, cronClock, reminded>>

\* GET: const now = new Date()
StartJob(c) ==
    /\ jobs[c].pc \in {"new", "done"}
    /\ jobs' = [jobs EXCEPT ![c] = [NewJob EXCEPT !.pc = "selectDue",
                                                  !.rnow = cronClock]]
    /\ UNCHANGED <<restVars, hookVars, reminders, cronClock, reminded>>

\* where the invocation goes when the loop over dueReminders moves on
AfterDue(j) ==
    IF j.due = <<>> THEN [j EXCEPT !.pc = "selectFollowUp"]
    ELSE [j EXCEPT !.pc = "send"]

\* where the invocation goes when the loop over needsFollowUp moves on
AfterFollowUp(j) ==
    IF j.followUp = <<>> THEN [NewJob EXCEPT !.pc = "done"]
    ELSE [j EXCEPT !.pc = "followUp"]

\* SELECT ... WHERE status = 'pending' AND triggerAt <= now
DueReminders(tbl, t) ==
    SelectSeq(<<"r1">>, LAMBDA r :
        /\ r \in DOMAIN tbl
        /\ tbl[r].status = "pending"
        /\ tbl[r].triggerAt <= t)

\* 1. the due reminders are selected
SelectDue(c) ==
    /\ jobs[c].pc = "selectDue"
    /\ jobs' = [jobs EXCEPT ![c] =
                  AfterDue([@ EXCEPT !.due = DueReminders(reminders, jobs[c].rnow)])]
    /\ UNCHANGED <<restVars, hookVars, reminders, cronClock, reminded>>

\* await sendTransactionAlert(reminder.phoneNumber, message)
SendReminder(c) ==
    /\ jobs[c].pc = "send"
    /\ reminded' = [reminded EXCEPT ![Head(jobs[c].due)] = @ + 1]
    /\ jobs' = [jobs EXCEPT ![c] = [@ EXCEPT !.pc = "update"]]
    /\ UNCHANGED <<restVars, hookVars, reminders, cronClock>>

\* sendTransactionAlert throws: the catch of the loop records the error and
\* the loop goes on
SendReminderThrows(c) ==
    /\ jobs[c].pc = "send"
    /\ jobs' = [jobs EXCEPT ![c] = AfterDue([@ EXCEPT !.due = Tail(@)])]
    /\ UNCHANGED <<restVars, hookVars, reminders, cronClock, reminded>>

\* the row the UPDATE ... WHERE id = reminder.id writes for snapshot row
\* (triggered / rescheduled with calculateNextOccurrence / confirmed)
Triggered(row, t, clk) ==
    IF row.requiresConfirmation
        THEN [row EXCEPT !.status = "triggered", !.triggeredAt = t]
    ELSE IF row.recurring
        THEN [row EXCEPT !.status = "pending", !.triggeredAt = Null,
                         !.triggerAt = clk + RecurrencePeriod]
    ELSE [row EXCEPT !.status = "confirmed", !.triggeredAt = t]

\* the status update that follows the send
UpdateReminder(c) ==
    /\ jobs[c].pc = "update"
    /\ reminders' = [reminders EXCEPT ![Head(jobs[c].due)] =
                        Triggered(@, jobs[c].rnow, cronClock)]
    /\ jobs' = [jobs EXCEPT ![c] = AfterDue([@ EXCEPT !.due = Tail(@)])]
    /\ UNCHANGED <<restVars, hookVars, cronClock, reminded>>

\* 2. SELECT ... WHERE status = 'triggered' AND requiresConfirmation: the rows
\* as they are now
SelectFollowUp(c) ==
    /\ jobs[c].pc = "selectFollowUp"
    /\ LET ids == SelectSeq(<<"r1">>, LAMBDA r :
                      /\ r \in DOMAIN reminders
                      /\ reminders[r].status = "triggered"
                      /\ reminders[r].requiresConfirmation)
       IN jobs' = [jobs EXCEPT ![c] = AfterFollowUp([@ EXCEPT !.followUp =
                     [n \in 1..Len(ids) |-> [id |-> ids[n], row |-> reminders[ids[n]]]]])]
    /\ UNCHANGED <<restVars, hookVars, reminders, cronClock, reminded>>

\* shouldFollowUp && reminder.followUpCount < MAX_FOLLOWUPS, for snapshot row
ShouldFollowUp(row, t) ==
    LET last == IF row.lastFollowUpAt # Null THEN row.lastFollowUpAt
                ELSE row.triggeredAt
    IN /\ row.triggeredAt # Null
       /\ \/ row.followUpCount = 0 /\ t - row.triggeredAt >= FIRST_FOLLOWUP_MINUTES
          \/ /\ row.followUpCount = 1
             /\ t - last >= SECOND_FOLLOWUP_MINUTES - FIRST_FOLLOWUP_MINUTES
       /\ row.followUpCount < MAX_FOLLOWUPS

\* one iteration of the follow-up loop: the follow-up message is sent and the
\* count is written, or the reminder is passed over
FollowUp(c) ==
    /\ jobs[c].pc = "followUp"
    /\ LET f == Head(jobs[c].followUp)
       IN reminders' =
             IF ShouldFollowUp(f.row, jobs[c].rnow)
             THEN [reminders EXCEPT ![f.id] =
                      [@ EXCEPT !.followUpCount = f.row.followUpCount + 1,
                                !.lastFollowUpAt = jobs[c].rnow]]
             ELSE reminders
    /\ jobs' = [jobs EXCEPT ![c] = AfterFollowUp([@ EXCEPT !.followUp = Tail(@)])]
    /\ UNCHANGED <<restVars, hookVars, cronClock, reminded>>

NextCron ==
    \/ CronTick
    \/ \E c \in JobIds : Unauthorized(c)
    \/ \E c \in JobIds : StartJob(c)
    \/ \E c \in JobIds : SelectDue(c)
    \/ \E c \in JobIds : SendReminder(c)
    \/ \E c \in JobIds : SendReminderThrows(c)
    \/ \E c \in JobIds : UpdateReminder(c)
    \/ \E c \in JobIds : SelectFollowUp(c)
    \/ \E c \in JobIds : FollowUp(c)

SpecCron == InitCron /\ [][NextCron]_vars

\* C38: across concurrent invocations of the cron handler a due one-time
\* reminder is sent to the recipient at most once
C38_ReminderSentOnce ==
    \A r \in ReminderIds :
        ~reminders[r].recurring => reminded[r] <= 1

====
